---- MODULE Spec2Model ----
(***************************************************************************)
(* Rotation / collection state machine of the osusu backend.               *)
(* One Group document (models/group.model.js) as persisted in the          *)
(* database, and the route handlers of server.js that load it, mutate it   *)
(* and save it.  In Spec every handler is one atomic step: load, checks,    *)
(* mutation and the final group.save() with its schema validation.  In     *)
(* SpecConc the handlers of approve-join, payment-initialize and           *)
(* payment-verify are two steps, the read and the write of the document,   *)
(* and requests interleave between them.                                   *)
(***************************************************************************)
EXTENDS Integers, Sequences, FiniteSets, TLC

\* ------------------------------------------------------------------ bounds
MaxLimit == 3
MaxPayments == 2
MaxTicks == 2

\* --------------------------------------------------------------- constants
\* registered users holding a valid token (req.userId); "C" creates the group
Users == {"C", "A", "B"}
NULL == "null"
MinMemberLimit == 2
ONE_DAY_IN_MS == 24 * 60 * 60 * 1000
\* the clock advances in steps of twenty-four hours
TickMs == 24 * 60 * 60 * 1000
\* enum of groupSchema.status; mongoose compares enum strings case-sensitively
GroupStatusEnum == {"active", "pending", "completed", "cancelled"}
\* enum of PaymentSchema.status
PaymentStatusEnum == {"Pending", "Complete", "Failed"}
\* outcomes of the call to the payment gateway
GatewayOutcomes == {"success", "failed", "throws"}

VARIABLES
    createdBy,        \* group.createdBy
    memberLimit,      \* group.memberLimit
    members,          \* group.members, sequence of user ids
    collectionOrder,  \* group.collectionOrder, sequence of user ids
    pendingRequests,  \* group.pendingRequests, sequence of [userId, timestamp]
    nextCollector,    \* group.nextCollector, a user id or NULL
    currentRound,     \* group.currentRound
    status,           \* group.status as persisted
    payments,         \* group.payments, sequence of payment records
    userGroups,       \* per user, how often the group is in user.groups
    now,              \* wall clock (new Date()), in ms
    last,             \* the last request handled and its response
    approvedLog,      \* history: requesters of the approvals that succeeded
    passed,           \* history: collectors pointed at since the last round increment
    markedCompleted,  \* history: a verify handler has set group.status to completed
    inflight          \* per request slot, the handler between its load and its save

vars == <<createdBy, memberLimit, members, collectionOrder, pendingRequests,
          nextCollector, currentRound, status, payments, userGroups, now,
          last, approvedLog, passed, markedCompleted, inflight>>

groupVars == <<createdBy, memberLimit, members, collectionOrder, pendingRequests,
               nextCollector, currentRound, status, payments>>

\* ----------------------------------------------------------------- helpers
ElemSet(s) == {s[i] : i \in 1..Len(s)}

\* Array.prototype.findIndex / indexOf on ids: 0-based, -1 when absent
FindIndex(s, x) ==
    IF \E i \in 1..Len(s) : s[i] = x
    THEN (CHOOSE i \in 1..Len(s) : s[i] = x /\ \A j \in 1..(i - 1) : s[j] # x) - 1
    ELSE -1

\* array[i] with a 0-based index; outside the array it is undefined, which
\* mongoose stores as an unset field
At(s, i) == IF i \in 0..(Len(s) - 1) THEN s[i + 1] ELSE NULL

\* mutant: splice removes nothing
Splice1_Keep(s, i) == s

\* array.splice(i, 1) with a 0-based index
Splice1(s, i) == SubSeq(s, 1, i) \o SubSeq(s, i + 2, Len(s))

\* array.filter(pred) for the predicate "id is not x"
FilterNot(s, x) == SelectSeq(s, LAMBDA m : m # x)

IsPrefix(s, t) == Len(s) <= Len(t) /\ SubSeq(t, 1, Len(s)) = s

NoDup(s) == \A i, j \in 1..Len(s) : s[i] = s[j] => i = j

\* what the handler of op answered: actor is the authenticated caller, user
\* and ref the join requester and the payment reference the answer is about
Response(op, actor, user, ref, result) ==
    [op |-> op, actor |-> actor, user |-> user, ref |-> ref, result |-> result]

\* request slots: at most two handlers are between load and save at a time
Procs == {1, 2}

\* a slot with no handler in it
Idle == [op |-> "idle"]

\* mongoose validation run by group.save(): the status must be in the enum
SaveValidates(st) == st \in GroupStatusEnum

\* -------------------------------------------------------------------- Init
\* POST /api/groups/create
Init ==
    /\ createdBy = "C"
    /\ memberLimit \in MinMemberLimit..MaxLimit
    /\ members = <<createdBy>>
    /\ collectionOrder = <<createdBy>>
    /\ pendingRequests = <<>>
    /\ nextCollector = NULL
    /\ currentRound = 1
    /\ status = "active"
    /\ payments = <<>>
    /\ userGroups = [u \in Users |-> IF u = createdBy THEN 1 ELSE 0]
    /\ now = 0
    /\ last = Response("create", createdBy, NULL, 0, "ok")
    /\ approvedLog = <<>>
    /\ passed = {}
    /\ markedCompleted = FALSE
    /\ inflight = [p \in Procs |-> Idle]

\* time passes between requests
Tick ==
    /\ now < MaxTicks * TickMs
    /\ now' = now + TickMs
    /\ UNCHANGED <<groupVars, userGroups, last, approvedLog, passed, markedCompleted>>

\* ------------------------------------------------------------ request-join
\* mutant: the membership test always succeeds
IsMember_Always(ms, u) == TRUE

\* mutant: the membership test never succeeds
IsMember_Never(ms, u) == FALSE

\* group.members.some(memberId => memberId === userId)
IsMember(ms, u) == \E i \in 1..Len(ms) : ms[i] = u

\* mutant: the ids are compared without toString(), which never matches
HasPendingRequest_NoToString(pr, u) == FALSE

\* group.pendingRequests.some(pendingReq => pendingReq.userId === userId)
HasPendingRequest(pr, u) == \E i \in 1..Len(pr) : pr[i].userId = u

\* mutant: the capacity comparison is strict
IsFull_Strict(ms, limit) == Len(ms) > limit

\* mutant: the group never counts as full
IsFull_Never(ms, limit) == FALSE

\* group.members.length >= group.memberLimit
IsFull(ms, limit) == Len(ms) >= limit

\* POST /api/groups/:groupId/request-join
RequestJoin(u) ==
    /\ IF IsMember(members, u)
       THEN /\ last' = Response("request-join", u, u, 0, "already_member")
            /\ UNCHANGED pendingRequests
       ELSE IF HasPendingRequest(pendingRequests, u)
       THEN /\ last' = Response("request-join", u, u, 0, "duplicate")
            /\ UNCHANGED pendingRequests
       ELSE IF IsFull(members, memberLimit)
       THEN /\ last' = Response("request-join", u, u, 0, "full")
            /\ UNCHANGED pendingRequests
       ELSE /\ pendingRequests' = Append(pendingRequests, [userId |-> u, timestamp |-> now])
            /\ last' = Response("request-join", u, u, 0, "ok")
    /\ UNCHANGED <<createdBy, memberLimit, members, collectionOrder, nextCollector,
                   currentRound, status, payments, userGroups, now, approvedLog,
                   passed, markedCompleted>>

\* ------------------------------------------------------------ approve-join
\* mutant: every caller passes for the creator
IsCreator_Anyone(creator, actor) == TRUE

\* group.createdBy.toString() === creatorId.toString()
IsCreator(creator, actor) == creator = actor

\* mutant: the last pending request is taken, whoever sent it
RequestIndex_Last(pr, req) == Len(pr) - 1

\* pendingRequests.findIndex(pendingReq => pendingReq.userId === requestId)
RequestIndex(pr, req) == FindIndex([i \in 1..Len(pr) |-> pr[i].userId], req)

\* mutant: a request never expires
IsExpired_Never(t, ts) == FALSE

\* (new Date() - new Date(timestamp)) > ONE_DAY_IN_MS
IsExpired(t, ts) == (t - ts) > ONE_DAY_IN_MS

\* group.collectionOrder.push(userId)
\* mutant: the new member is put at the front of the rotation
ExtendOrder_Unshift(order, id) == <<id>> \o order

ExtendOrder(order, id) == Append(order, id)

\* mutant: the first collector is picked among all users but the creator
FirstCollectorChoices_AnyUser(ms, creator) == Users \ {creator}

\* mutant: the creator is not filtered out before the pick
FirstCollectorChoices_AllMembers(ms, creator) == ElemSet(ms)

\* the members the first collector is picked from (Math.random over the
\* non-creator members, the creator when there is none)
FirstCollectorChoices(ms, creator) ==
    LET nonCreatorMembers == FilterNot(ms, creator)
    IN  IF Len(nonCreatorMembers) > 0 THEN ElemSet(nonCreatorMembers) ELSE {creator}

\* mutant: the selection runs on every approval
CollectorUnset_Always(nc) == TRUE

\* group.nextCollector === null
CollectorUnset(nc) == nc = NULL

\* POST /api/groups/:groupId/approve-join/:requestId
ApproveJoin(actor, req) ==
    LET requestIndex == RequestIndex(pendingRequests, req) IN
    IF ~IsCreator(createdBy, actor)
    THEN /\ last' = Response("approve-join", actor, NULL, 0, "unauthorized")
         /\ UNCHANGED <<groupVars, userGroups, now, approvedLog, passed, markedCompleted>>
    ELSE IF requestIndex = -1
    THEN /\ last' = Response("approve-join", actor, req, 0, "not_found")
         /\ UNCHANGED <<groupVars, userGroups, now, approvedLog, passed, markedCompleted>>
    ELSE IF IsExpired(now, At(pendingRequests, requestIndex).timestamp)
    THEN /\ pendingRequests' = Splice1(pendingRequests, requestIndex)
         /\ last' = Response("approve-join", actor, req, 0, "expired")
         /\ UNCHANGED <<createdBy, memberLimit, members, collectionOrder, nextCollector,
                        currentRound, status, payments, userGroups, now, approvedLog,
                        passed, markedCompleted>>
    ELSE IF IsFull(members, memberLimit)
    THEN /\ pendingRequests' = Splice1(pendingRequests, requestIndex)
         /\ last' = Response("approve-join", actor, req, 0, "full")
         /\ UNCHANGED <<createdBy, memberLimit, members, collectionOrder, nextCollector,
                        currentRound, status, payments, userGroups, now, approvedLog,
                        passed, markedCompleted>>
    ELSE /\ members' = Append(members, At(pendingRequests, requestIndex).userId)
         /\ collectionOrder' = ExtendOrder(collectionOrder,
                                            At(pendingRequests, requestIndex).userId)
         /\ pendingRequests' = Splice1(pendingRequests, requestIndex)
         /\ IF CollectorUnset(nextCollector)
            THEN /\ nextCollector' \in FirstCollectorChoices(members', createdBy)
                 /\ passed' = {nextCollector'}
            ELSE UNCHANGED <<nextCollector, passed>>
         /\ userGroups' = [userGroups EXCEPT ![req] = @ + 1]
         /\ approvedLog' = Append(approvedLog, req)
         /\ last' = Response("approve-join", actor, req, 0, "ok")
         /\ UNCHANGED <<createdBy, memberLimit, currentRound, status, payments, now,
                        markedCompleted>>

\* ------------------------------------------------------------- reject-join
\* POST /api/groups/:groupId/reject-join/:requestId
RejectJoin(actor, req) ==
    LET requestIndex == RequestIndex(pendingRequests, req) IN
    /\ IF ~IsCreator(createdBy, actor)
       THEN /\ last' = Response("reject-join", actor, NULL, 0, "unauthorized")
            /\ UNCHANGED pendingRequests
       ELSE IF requestIndex = -1
       THEN /\ last' = Response("reject-join", actor, req, 0, "not_found")
            /\ UNCHANGED pendingRequests
       ELSE IF IsExpired(now, At(pendingRequests, requestIndex).timestamp)
       THEN /\ pendingRequests' = Splice1(pendingRequests, requestIndex)
            /\ last' = Response("reject-join", actor, req, 0, "expired")
       ELSE /\ pendingRequests' = Splice1(pendingRequests, requestIndex)
            /\ last' = Response("reject-join", actor, req, 0, "ok")
    /\ UNCHANGED <<createdBy, memberLimit, members, collectionOrder, nextCollector,
                   currentRound, status, payments, userGroups, now, approvedLog,
                   passed, markedCompleted>>

\* ------------------------------------------------------ payment-initialize
\* transaction_ref = `TX-${Date.now()}-${random}`: a fresh reference per
\* initialized payment, here the position of the record in group.payments
NewReference(ps) == Len(ps) + 1

\* mutant: the ids are compared without toString(), which never matches
IsSelfPayment_NoToString(recipient, u) == FALSE

\* recipient.toString() === userId.toString()
IsSelfPayment(recipient, u) == recipient = u

\* mutant: the record is built for the round after the current one
NewPayment_NextRound(u, recipient, round, ref) ==
    [payer |-> u, recipient |-> recipient, round |-> round + 1,
     status |-> "Pending", paymentReference |-> ref]

\* the Payment Record built from the loaded group
NewPayment(u, recipient, round, ref) ==
    [payer |-> u, recipient |-> recipient, round |-> round,
     status |-> "Pending", paymentReference |-> ref]

\* mutant: the record is pushed and saved before the gateway is called
PaymentsAfterGatewayFailure_Saved(ps, rec) == Append(ps, rec)

\* mutant: a failed gateway call clears the payments of the group
PaymentsAfterGatewayFailure_Cleared(ps, rec) == <<>>

\* group.payments when the gateway call throws or answers without success:
\* the handler returns before the push
PaymentsAfterGatewayFailure(ps, rec) == ps

\* POST /api/payments/initialize/:groupId
InitializePayment(u, gateway) ==
    LET recipient == nextCollector IN
    /\ IF ~IsMember(members, u)
       THEN /\ last' = Response("payment-initialize", u, NULL, 0, "not_member")
            /\ UNCHANGED payments
       ELSE IF recipient = NULL
       THEN /\ last' = Response("payment-initialize", u, NULL, 0, "no_collector")
            /\ UNCHANGED payments
       ELSE IF IsSelfPayment(recipient, u)
       THEN /\ last' = Response("payment-initialize", u, NULL, 0, "self_payment")
            /\ UNCHANGED payments
       ELSE IF gateway # "success"
       THEN /\ last' = Response("payment-initialize", u, NULL, 0,
                                IF gateway = "throws" THEN "gateway_error"
                                ELSE "gateway_failed")
            /\ payments' = PaymentsAfterGatewayFailure(payments,
                   NewPayment(u, recipient, currentRound, NewReference(payments)))
       ELSE /\ Len(payments) < MaxPayments
            /\ payments' = Append(payments,
                   NewPayment(u, recipient, currentRound, NewReference(payments)))
            /\ last' = Response("payment-initialize", u, recipient,
                                NewReference(payments), "ok")
    /\ UNCHANGED <<createdBy, memberLimit, members, collectionOrder, pendingRequests,
                   nextCollector, currentRound, status, userGroups, now, approvedLog,
                   passed, markedCompleted>>

\* ---------------------------------------------------------- payment-verify
\* mutant: the first record is taken, whatever its reference
PaymentIndex_First(ps, ref) == IF ps = <<>> THEN -1 ELSE 0

\* group.payments.find(p => p.paymentReference === tx_ref): 0-based position
PaymentIndex(ps, ref) == FindIndex([i \in 1..Len(ps) |-> ps[i].paymentReference], ref)

\* mutant: the pointer skips one position
NextIndex_Skip(currentIndex, order) == (currentIndex + 2) % Len(order)

\* mutant: the index is not wrapped at the end of the rotation
NextIndex_NoWrap(currentIndex, order) == currentIndex + 1

\* nextIndex = (currentIndex + 1) % group.collectionOrder.length
NextIndex(currentIndex, order) == (currentIndex + 1) % Len(order)

\* mutant: the comparison is off by one
RoundExceeds_OffByOne(round, ms, limit) == round > Len(ms) + 1

\* group.currentRound > group.members.length
RoundExceeds(round, ms, limit) == round > Len(ms)

\* the value assigned to group.status when the cycle is over
CompletedValue == "Completed"

\* POST /api/payments/verify
VerifyPayment(txRef, gateway) ==
    LET p == PaymentIndex(payments, txRef) IN
    IF gateway = "throws"
    THEN /\ last' = Response("payment-verify", NULL, NULL, 0, "error")
         /\ UNCHANGED <<groupVars, userGroups, now, approvedLog, passed, markedCompleted>>
    ELSE IF gateway # "success"
    THEN /\ last' = Response("payment-verify", NULL, NULL, 0, "verification_failed")
         /\ UNCHANGED <<groupVars, userGroups, now, approvedLog, passed, markedCompleted>>
    ELSE IF p = -1
    THEN /\ last' = Response("payment-verify", NULL, NULL, txRef, "not_found")
         /\ UNCHANGED <<groupVars, userGroups, now, approvedLog, passed, markedCompleted>>
    ELSE
      LET payer == At(payments, p).payer
          newPayments == [payments EXCEPT ![p + 1].status = "Complete"]
          currentIndex == FindIndex(collectionOrder, payer)
          nextIndex == NextIndex(currentIndex, collectionOrder)
          newCollector == IF currentIndex # -1 THEN At(collectionOrder, nextIndex)
                          ELSE nextCollector
          newRound == IF currentIndex # -1 /\ nextIndex = 0
                      THEN currentRound + 1 ELSE currentRound
          newStatus == IF currentIndex # -1 /\ nextIndex = 0
                          /\ RoundExceeds(newRound, members, memberLimit)
                       THEN CompletedValue ELSE status
      IN
      IF SaveValidates(newStatus)
      THEN /\ payments' = newPayments
           /\ nextCollector' = newCollector
           /\ currentRound' = newRound
           /\ status' = newStatus
           /\ passed' = IF newRound # currentRound THEN {newCollector}
                        ELSE passed \cup {newCollector}
           /\ markedCompleted' = (markedCompleted \/ newStatus # status)
           /\ last' = Response("payment-verify", NULL, payer, txRef, "ok")
           /\ UNCHANGED <<createdBy, memberLimit, members, collectionOrder,
                          pendingRequests, userGroups, now, approvedLog>>
      ELSE \* group.save() rejects with a ValidationError: nothing is persisted
           /\ markedCompleted' = TRUE
           /\ last' = Response("payment-verify", NULL, payer, txRef, "error")
           /\ UNCHANGED <<groupVars, userGroups, now, approvedLog, passed>>

\* -------------------------------------------------------------------- Next
\* one request at a time: no handler is ever between its load and its save
Next ==
    \/ Tick /\ UNCHANGED inflight
    \/ \E u \in Users : RequestJoin(u) /\ UNCHANGED inflight
    \/ \E actor \in Users, req \in Users : ApproveJoin(actor, req) /\ UNCHANGED inflight
    \/ \E actor \in Users, req \in Users : RejectJoin(actor, req) /\ UNCHANGED inflight
    \/ \E u \in Users, g \in GatewayOutcomes :
          InitializePayment(u, g) /\ UNCHANGED inflight
    \/ \E r \in 1..(MaxPayments + 1), g \in GatewayOutcomes :
          VerifyPayment(r, g) /\ UNCHANGED inflight

Spec == Init /\ [][Next]_vars

TypeOK ==
    /\ createdBy \in Users
    /\ memberLimit \in MinMemberLimit..(MaxLimit + 1)
    /\ members \in Seq(Users)
    /\ collectionOrder \in Seq(Users)
    /\ nextCollector \in Users \cup {NULL}
    /\ currentRound \in Nat \ {0}
    /\ status \in GroupStatusEnum
    /\ \A i \in 1..Len(payments) : payments[i].status \in PaymentStatusEnum
    /\ now \in Nat

\* ------------------------------------------------ interleaved handlers
\* the document as Group.findById / Group.findOne hands it to the handler
LoadedDoc ==
    [members |-> members, collectionOrder |-> collectionOrder,
     pendingRequests |-> pendingRequests, nextCollector |-> nextCollector,
     currentRound |-> currentRound, status |-> status, payments |-> payments]

\* a handler that holds a loaded document; stale: the persisted __v has been
\* incremented since the load
Loaded(op, actor, arg) ==
    [op |-> op, actor |-> actor, arg |-> arg, doc |-> LoadedDoc, stale |-> FALSE]

\* a request is taken by the first free slot
FreeSlot(p) ==
    /\ inflight[p].op = "idle"
    /\ \A q \in Procs : q < p => inflight[q].op # "idle"

\* how mongoose versions the update of a save (the schema keeps the default
\* versionKey __v): pushing to an array increments __v, setting a position
\* of an array puts the loaded __v in the condition, setting a whole array
\* (splice) does both, setting plain fields does neither
VERSION_NONE == 0
VERSION_WHERE == 1
VERSION_INC == 2
VERSION_ALL == 3

\* mutant: the update never carries the loaded __v in its condition
SaveMatches_Unversioned(r, version) == TRUE

\* the update of the save finds its document; when it does not, save()
\* rejects with a VersionError and nothing is written
SaveMatches(r, version) == ~(version \in {VERSION_WHERE, VERSION_ALL} /\ r.stale)

\* the slots after the handler in slot p has written with this versioning
AfterSave(p, version) ==
    [q \in Procs |->
        IF q = p THEN Idle
        ELSE IF version \in {VERSION_INC, VERSION_ALL} /\ inflight[q].op # "idle"
        THEN [inflight[q] EXCEPT !.stale = TRUE]
        ELSE inflight[q]]

\* POST /api/groups/:groupId/request-join while other handlers are in flight:
\* its save pushes to pendingRequests
RequestJoinConc(u) ==
    /\ RequestJoin(u)
    /\ inflight' = IF pendingRequests' # pendingRequests
                   THEN AfterSave(0, VERSION_INC) ELSE inflight

\* approve-join up to its await of group.save(): Group.findById and the
\* checks that answer without saving
ApproveLoad(p, actor, req) ==
    /\ FreeSlot(p)
    /\ IF ~IsCreator(createdBy, actor)
       THEN /\ last' = Response("approve-join", actor, NULL, 0, "unauthorized")
            /\ UNCHANGED inflight
       ELSE IF RequestIndex(pendingRequests, req) = -1
       THEN /\ last' = Response("approve-join", actor, req, 0, "not_found")
            /\ UNCHANGED inflight
       ELSE /\ inflight' = [inflight EXCEPT ![p] = Loaded("approve-join", actor, req)]
            /\ UNCHANGED last
    /\ UNCHANGED <<groupVars, userGroups, now, approvedLog, passed, markedCompleted>>

\* approve-join from group.save() on: the update built from the loaded
\* document ($push members, $push collectionOrder, $set pendingRequests,
\* $set nextCollector) and the answer
ApproveSave(p) ==
    LET r == inflight[p]
        d == r.doc
        requestIndex == RequestIndex(d.pendingRequests, r.arg)
        request == At(d.pendingRequests, requestIndex)
    IN
    /\ r.op = "approve-join"
    /\ IF ~SaveMatches(r, VERSION_ALL)
       THEN /\ last' = Response("approve-join", r.actor, r.arg, 0, "error")
            /\ inflight' = [inflight EXCEPT ![p] = Idle]
            /\ UNCHANGED <<groupVars, userGroups, approvedLog, passed>>
       ELSE IF IsExpired(now, request.timestamp) \/ IsFull(d.members, memberLimit)
       THEN /\ pendingRequests' = Splice1(d.pendingRequests, requestIndex)
            /\ last' = Response("approve-join", r.actor, r.arg, 0,
                                IF IsExpired(now, request.timestamp)
                                THEN "expired" ELSE "full")
            /\ inflight' = AfterSave(p, VERSION_ALL)
            /\ UNCHANGED <<createdBy, memberLimit, members, collectionOrder,
                           nextCollector, currentRound, status, payments,
                           userGroups, approvedLog, passed>>
       ELSE /\ members' = Append(members, request.userId)
            /\ collectionOrder' = ExtendOrder(collectionOrder, request.userId)
            /\ pendingRequests' = Splice1(d.pendingRequests, requestIndex)
            /\ IF CollectorUnset(d.nextCollector)
               THEN /\ nextCollector' \in FirstCollectorChoices(
                            Append(d.members, request.userId), createdBy)
                    /\ passed' = {nextCollector'}
               ELSE UNCHANGED <<nextCollector, passed>>
            /\ userGroups' = [userGroups EXCEPT ![r.arg] = @ + 1]
            /\ approvedLog' = Append(approvedLog, r.arg)
            /\ last' = Response("approve-join", r.actor, r.arg, 0, "ok")
            /\ inflight' = AfterSave(p, VERSION_ALL)
            /\ UNCHANGED <<createdBy, memberLimit, currentRound, status, payments>>
    /\ UNCHANGED <<now, markedCompleted>>

\* payment-initialize up to its await of the gateway call: Group.findById
\* and the checks on the loaded document
InitializeLoad(p, u) ==
    /\ FreeSlot(p)
    /\ IF ~IsMember(members, u)
       THEN /\ last' = Response("payment-initialize", u, NULL, 0, "not_member")
            /\ UNCHANGED inflight
       ELSE IF nextCollector = NULL
       THEN /\ last' = Response("payment-initialize", u, NULL, 0, "no_collector")
            /\ UNCHANGED inflight
       ELSE IF IsSelfPayment(nextCollector, u)
       THEN /\ last' = Response("payment-initialize", u, NULL, 0, "self_payment")
            /\ UNCHANGED inflight
       ELSE /\ inflight' = [inflight EXCEPT ![p] = Loaded("payment-initialize", u, 0)]
            /\ UNCHANGED last
    /\ UNCHANGED <<groupVars, userGroups, now, approvedLog, passed, markedCompleted>>

\* payment-initialize from the gateway's answer on: the record is built from
\* the loaded document and the save is a $push to payments
InitializeSave(p, gateway) ==
    LET r == inflight[p]
        d == r.doc
        rec == NewPayment(r.actor, d.nextCollector, d.currentRound,
                          NewReference(payments))
    IN
    /\ r.op = "payment-initialize"
    /\ IF gateway # "success"
       THEN /\ last' = Response("payment-initialize", r.actor, NULL, 0,
                                IF gateway = "throws" THEN "gateway_error"
                                ELSE "gateway_failed")
            /\ payments' = PaymentsAfterGatewayFailure(payments, rec)
            /\ inflight' = [inflight EXCEPT ![p] = Idle]
       ELSE /\ Len(payments) < MaxPayments
            /\ payments' = Append(payments, rec)
            /\ last' = Response("payment-initialize", r.actor, rec.recipient,
                                rec.paymentReference, "ok")
            /\ inflight' = AfterSave(p, VERSION_INC)
    /\ UNCHANGED <<createdBy, memberLimit, members, collectionOrder, pendingRequests,
                   nextCollector, currentRound, status, userGroups, now, approvedLog,
                   passed, markedCompleted>>

\* payment-verify up to its await of group.save(): the gateway call and
\* Group.findOne by the payment reference
VerifyLoad(p, txRef, gateway) ==
    /\ FreeSlot(p)
    /\ IF gateway = "throws"
       THEN /\ last' = Response("payment-verify", NULL, NULL, 0, "error")
            /\ UNCHANGED inflight
       ELSE IF gateway # "success"
       THEN /\ last' = Response("payment-verify", NULL, NULL, 0, "verification_failed")
            /\ UNCHANGED inflight
       ELSE IF PaymentIndex(payments, txRef) = -1
       THEN /\ last' = Response("payment-verify", NULL, NULL, txRef, "not_found")
            /\ UNCHANGED inflight
       ELSE /\ inflight' = [inflight EXCEPT ![p] = Loaded("payment-verify", NULL, txRef)]
            /\ UNCHANGED last
    /\ UNCHANGED <<groupVars, userGroups, now, approvedLog, passed, markedCompleted>>

\* payment-verify from group.save() on: the fields the handler changed on
\* the loaded document are $set (payments.i.status, nextCollector,
\* currentRound, status), a field assigned the value it had is not
VerifySave(p) ==
    LET r == inflight[p]
        d == r.doc
        i == PaymentIndex(d.payments, r.arg)
        payer == At(d.payments, i).payer
        statusModified == At(d.payments, i).status # "Complete"
        currentIndex == FindIndex(d.collectionOrder, payer)
        nextIndex == NextIndex(currentIndex, d.collectionOrder)
        newCollector == IF currentIndex # -1 THEN At(d.collectionOrder, nextIndex)
                        ELSE d.nextCollector
        newRound == IF currentIndex # -1 /\ nextIndex = 0
                    THEN d.currentRound + 1 ELSE d.currentRound
        newStatus == IF currentIndex # -1 /\ nextIndex = 0
                        /\ RoundExceeds(newRound, d.members, memberLimit)
                     THEN CompletedValue ELSE d.status
        version == IF statusModified THEN VERSION_WHERE ELSE VERSION_NONE
    IN
    /\ r.op = "payment-verify"
    /\ IF ~SaveValidates(newStatus)
       THEN /\ markedCompleted' = TRUE
            /\ last' = Response("payment-verify", NULL, payer, r.arg, "error")
            /\ inflight' = [inflight EXCEPT ![p] = Idle]
            /\ UNCHANGED <<groupVars, passed>>
       ELSE IF ~SaveMatches(r, version)
       THEN /\ last' = Response("payment-verify", NULL, payer, r.arg, "error")
            /\ inflight' = [inflight EXCEPT ![p] = Idle]
            /\ UNCHANGED <<groupVars, passed, markedCompleted>>
       ELSE /\ payments' = IF statusModified
                           THEN [payments EXCEPT ![i + 1].status = "Complete"]
                           ELSE payments
            /\ nextCollector' = IF newCollector # d.nextCollector
                                THEN newCollector ELSE nextCollector
            /\ currentRound' = IF newRound # d.currentRound
                               THEN newRound ELSE currentRound
            /\ status' = IF newStatus # d.status THEN newStatus ELSE status
            /\ passed' = IF currentRound' # currentRound THEN {nextCollector'}
                         ELSE passed \cup {nextCollector'}
            /\ markedCompleted' = (markedCompleted \/ newStatus # d.status)
            /\ last' = Response("payment-verify", NULL, payer, r.arg, "ok")
            /\ inflight' = AfterSave(p, version)
            /\ UNCHANGED <<createdBy, memberLimit, members, collectionOrder,
                           pendingRequests>>
    /\ UNCHANGED <<userGroups, now, approvedLog>>

\* the join requests of a group interleave: request-join and the two steps of
\* approve-join, the handlers that write members, collectionOrder and
\* pendingRequests; the clock stands still
NextJoinConc ==
    \/ \E u \in Users : RequestJoinConc(u)
    \/ \E p \in Procs, actor \in Users, req \in Users : ApproveLoad(p, actor, req)
    \/ \E p \in Procs : ApproveSave(p)

SpecJoinConc == Init /\ [][NextJoinConc]_vars

\* all requests interleave: a handler's load and its save are separate steps
\* and the clock stands still
NextConc ==
    \/ \E u \in Users : RequestJoinConc(u)
    \/ \E p \in Procs, actor \in Users, req \in Users : ApproveLoad(p, actor, req)
    \/ \E p \in Procs : ApproveSave(p)
    \/ \E p \in Procs, u \in Users : InitializeLoad(p, u)
    \/ \E p \in Procs, g \in GatewayOutcomes : InitializeSave(p, g)
    \/ \E p \in Procs, r \in 1..(MaxPayments + 1), g \in GatewayOutcomes :
          VerifyLoad(p, r, g)
    \/ \E p \in Procs : VerifySave(p)

SpecConc == Init /\ [][NextConc]_vars

\* ------------------------------------------------------------------ claims
\* a step taken by the handler of op that responded with result
Handled(op, result) == now' = now /\ last'.op = op /\ last'.result = result

\* C1: in every reachable state the number of members is at most memberLimit
Inv_C1_MembersWithinLimit == Len(members) <= memberLimit

\* an approval was refused on a group that holds exactly memberLimit members
Wit_C1 ==
    /\ Len(members) = memberLimit
    /\ last.op = "approve-join" /\ last.result = "full"

\* C2: collectionOrder is the creator followed by the approved joiners in
\* approval order, every step extends it at its end only, and
\* payment-verify leaves it unchanged
Thm_C2_OrderAppendOnly ==
    /\ collectionOrder = <<createdBy>> \o approvedLog
    /\ [][/\ IsPrefix(collectionOrder, collectionOrder')
          /\ collectionOrder' = <<createdBy>> \o approvedLog'
          /\ (last'.op = "payment-verify" /\ now' = now
                => collectionOrder' = collectionOrder)]_vars

\* two joiners were approved and a payment has been verified since
Wit_C2 ==
    /\ Len(approvedLog) = 2
    /\ last.op = "payment-verify" /\ last.result = "ok"

\* C3: members and collectionOrder hold the same users, each exactly once
Inv_C3_MembersMatchOrder ==
    /\ ElemSet(members) = ElemSet(collectionOrder)
    /\ NoDup(members)
    /\ NoDup(collectionOrder)

\* a third member was approved into the group
Wit_C3 ==
    /\ Len(members) = 3
    /\ last.op = "approve-join" /\ last.result = "ok"

\* C4: nextCollector is null or an element of members
Inv_C4_CollectorIsMember ==
    nextCollector = NULL \/ nextCollector \in ElemSet(members)

\* the collector was set by a verification that moved it to another member
Wit_C4 ==
    /\ nextCollector # NULL
    /\ last.op = "payment-verify" /\ last.result = "ok"
    /\ Cardinality(passed) >= 2

\* C5: a successful payment-verify of a payment whose payer is at index i of
\* collectionOrder sets nextCollector to collectionOrder[(i + 1) mod len] and
\* adds 1 to currentRound exactly when (i + 1) mod len = 0, else leaves it
Thm_C5_VerifyAdvance ==
    [][\A r \in 1..Len(payments) :
          (Handled("payment-verify", "ok") /\ last'.ref = r) =>
             LET i == FindIndex(collectionOrder, payments[r].payer)
                 n == (i + 1) % Len(collectionOrder)
             IN  /\ i >= 0
                 /\ nextCollector' = collectionOrder[n + 1]
                 /\ (currentRound' = currentRound + 1 <=> n = 0)
                 /\ (n # 0 => currentRound' = currentRound)]_vars

\* a verification of the last member's payment wrapped around: round 2
Wit_C5 ==
    /\ last.op = "payment-verify" /\ last.result = "ok"
    /\ currentRound = 2
    /\ nextCollector = collectionOrder[1]

\* C6: between two consecutive increments of currentRound, nextCollector has
\* passed through every position of collectionOrder
Cex_C6_FullTraversal ==
    [][(now' = now /\ currentRound >= 2 /\ currentRound' = currentRound + 1)
          => ElemSet(collectionOrder) \subseteq passed]_vars

\* C7: once a payment-verify has made currentRound greater than
\* members.length, the persisted status is completed, and stays so
Cex_C7_StatusCompleted == markedCompleted => status = "completed"

\* C8: while the status is active, currentRound is at most members.length
Inv_C8_RoundWithinMembers ==
    status = "active" => currentRound <= Len(members)

\* the round has reached members.length and a verification that would have
\* taken it beyond was handled
Wit_C8 ==
    /\ status = "active"
    /\ currentRound = Len(members)
    /\ markedCompleted

\* C9: a successful payment-verify of a reference that was verified before
\* changes neither nextCollector nor currentRound nor status
Cex_C9_VerifyIdempotent ==
    [][\A r \in 1..Len(payments) :
          (/\ Handled("payment-verify", "ok") /\ last'.ref = r
           /\ payments[r].status = "Complete")
            => /\ nextCollector' = nextCollector
               /\ currentRound' = currentRound
               /\ status' = status]_vars

\* C10: once a payment-verify has completed the group, payment-initialize
\* appends no Payment Record and payment-verify changes neither
\* nextCollector nor currentRound
Cex_C10_NoPaymentsAfterCompletion ==
    [][(markedCompleted /\ now' = now)
          => /\ Len(payments') = Len(payments)
             /\ nextCollector' = nextCollector
             /\ currentRound' = currentRound]_vars

\* C11: whenever approve-join changes nextCollector from null to a value,
\* that value is a member of the group other than the creator
Thm_C11_FirstCollectorNotCreator ==
    [][(now' = now /\ last'.op = "approve-join"
          /\ nextCollector = NULL /\ nextCollector' # NULL)
         => /\ nextCollector' # createdBy
            /\ nextCollector' \in ElemSet(members')]_vars

\* the first approval has just assigned the first collector
Wit_C11 ==
    /\ last.op = "approve-join" /\ last.result = "ok"
    /\ Len(approvedLog) = 1
    /\ nextCollector # NULL

\* C12: nextCollector is null exactly until the first successful approval;
\* approve-join assigns it only then and every later approve-join leaves it
\* unchanged
Thm_C12_SelectionRunsOnce ==
    /\ (nextCollector = NULL <=> approvedLog = <<>>)
    /\ [][/\ (nextCollector' = NULL <=> approvedLog' = <<>>)
          /\ (now' = now /\ last'.op = "approve-join")
               => /\ (nextCollector # NULL => nextCollector' = nextCollector)
                  /\ (nextCollector' # nextCollector => approvedLog = <<>>)]_vars

\* a second approval succeeded after the collector had been assigned
Wit_C12 ==
    /\ last.op = "approve-join" /\ last.result = "ok"
    /\ Len(approvedLog) = 2
    /\ nextCollector # NULL

\* the group of the scenario: creator C, member limit 3, A then B approved
ScenarioGroup == createdBy = "C" /\ memberLimit = 3 /\ approvedLog = <<"A", "B">>

\* the payers of the Payment Records follow collectionOrder, one after the other
PayersInOrder(ps, order) ==
    \A i \in 1..Len(ps) : ps[i].payer = order[((i - 1) % Len(order)) + 1]

\* every Payment Record has been verified
AllVerified(ps) == \A i \in 1..Len(ps) : ps[i].status = "Complete"

\* the number of verified Payment Records
VerifiedCount(ps) == Cardinality({i \in 1..Len(ps) : ps[i].status = "Complete"})

\* C13: in the group of creator C with memberLimit 3 where A and then B were
\* approved, collectionOrder is [C, A, B] and nextCollector is A or B; the
\* members can pay and be verified one after the other in collectionOrder
\* order, currentRound is then incremented only after the third verified
\* payment, and the status is completed once currentRound exceeds 3
Cex_C13_ScenarioThreeMembers ==
    [][/\ ScenarioGroup' =>
            /\ collectionOrder' = <<"C", "A", "B">>
            /\ (payments' = <<>> => nextCollector' \in {"A", "B"})
            /\ (PayersInOrder(payments', collectionOrder') /\ currentRound' > 1
                  => VerifiedCount(payments') >= 3)
            /\ (PayersInOrder(payments', collectionOrder') /\ markedCompleted'
                  => status' = "completed")
       /\ (/\ ScenarioGroup
           /\ PayersInOrder(payments, collectionOrder) /\ AllVerified(payments)
           /\ now' = now /\ last'.op = "payment-initialize"
           /\ last'.actor = collectionOrder[(Len(payments) % Len(collectionOrder)) + 1]
           /\ last'.result \notin {"gateway_failed", "gateway_error"})
          => last'.result = "ok"]_vars

\* C14: when currentRound is incremented after a full pass, every member has
\* been the recipient of the pool in that pass: each member is the recipient
\* of a verified Payment Record of the round that ends
Cex_C14_EveryMemberCollects ==
    [][(now' = now /\ currentRound >= 2 /\ currentRound' = currentRound + 1)
         => \A m \in ElemSet(members) :
               \E i \in 1..Len(payments') :
                  /\ payments'[i].status = "Complete"
                  /\ payments'[i].round = currentRound
                  /\ payments'[i].recipient = m]_vars

\* C15: with approve-join handlers interleaved between their load and their
\* save, every approval that answered success has its user in members and in
\* collectionOrder, and members never holds more than memberLimit users
Inv_C15_NoLostApproval ==
    /\ \A i \in 1..Len(approvedLog) :
          /\ approvedLog[i] \in ElemSet(members)
          /\ approvedLog[i] \in ElemSet(collectionOrder)
    /\ Len(members) <= memberLimit

\* two approvals were in flight together: the first has answered success, the
\* second still holds the document it loaded before that save
Wit_C15 ==
    /\ inflight[1].op = "idle"
    /\ inflight[2].op = "approve-join" /\ inflight[2].stale
    /\ last.op = "approve-join" /\ last.result = "ok"
    /\ Len(members) = memberLimit

\* C16: every Payment Record is appended with the round and the recipient
\* the group has in the state in which it is appended
Cex_C16_RecordMatchesGroup ==
    [][Len(payments') = Len(payments) + 1
         => /\ payments'[Len(payments')].round = currentRound'
            /\ payments'[Len(payments')].recipient = nextCollector']_vars

\* the handler in slot p is a payment-verify that wrapped the pointer on the
\* document it loaded
WrapsPointer(r) ==
    /\ r.op = "payment-verify"
    /\ LET payer == At(r.doc.payments, PaymentIndex(r.doc.payments, r.arg)).payer
       IN  FindIndex(r.doc.collectionOrder, payer) = Len(r.doc.collectionOrder) - 1

\* a payment-verify for another reference has written since r loaded
OtherVerified(r) ==
    \E i \in 1..Len(r.doc.payments) :
        /\ r.doc.payments[i].paymentReference # r.arg
        /\ r.doc.payments[i].status = "Pending"
        /\ payments[i].status = "Complete"

\* C17: two payment-verify handlers for different references leave the state
\* of a serial order of them, so no round increment is lost: a payment-verify
\* that answers success after wrapping the pointer leaves the persisted
\* currentRound one higher than it was before its save, also when another
\* payment-verify has written between its load and its save
Cex_C17_NoLostRoundIncrement ==
    [][\A p \in Procs :
          (/\ WrapsPointer(inflight[p])
           /\ OtherVerified(inflight[p])
           /\ inflight'[p].op = "idle"
           /\ last'.op = "payment-verify" /\ last'.result = "ok"
           /\ collectionOrder = inflight[p].doc.collectionOrder)
            => currentRound' = currentRound + 1]_vars

\* a step taken by payment-initialize on behalf of the caller u
InitializeBy(u) == now' = now /\ last'.op = "payment-initialize" /\ last'.actor = u

\* C18: payment-initialize by the member who is nextCollector fails as a
\* self-payment and appends no Payment Record; every Payment Record has a
\* payer different from its recipient
Thm_C18_NoSelfPayment ==
    [][/\ \A i \in 1..Len(payments') : payments'[i].payer # payments'[i].recipient
       /\ \A u \in Users :
             (InitializeBy(u) /\ u = nextCollector)
               => last'.result = "self_payment" /\ payments' = payments]_vars

\* the collector asked to pay and was refused while Payment Records exist
Wit_C18 ==
    /\ last.op = "payment-initialize" /\ last.result = "self_payment"
    /\ last.actor = nextCollector
    /\ payments # <<>>

\* C19: payment-initialize by a caller who is not in members fails as
\* NotAMember, by a member while nextCollector is unset as NoCollector; both
\* leave the group unchanged, and every Payment Record's payer is a member
Thm_C19_PayerIsMember ==
    [][/\ \A i \in 1..Len(payments') : payments'[i].payer \in ElemSet(members')
       /\ \A u \in Users :
             /\ (InitializeBy(u) /\ u \notin ElemSet(members))
                  => last'.result = "not_member" /\ UNCHANGED groupVars
             /\ (InitializeBy(u) /\ u \in ElemSet(members) /\ nextCollector = NULL)
                  => last'.result = "no_collector" /\ UNCHANGED groupVars]_vars

\* a caller outside the group was refused while Payment Records exist
Wit_C19 ==
    /\ last.op = "payment-initialize" /\ last.result = "not_member"
    /\ last.actor \notin ElemSet(members)
    /\ payments # <<>>

\* the creator was refused before any collector was assigned
Wit_C19_NoCollector ==
    /\ last.op = "payment-initialize" /\ last.result = "no_collector"
    /\ nextCollector = NULL

\* C20: when the gateway call of payment-initialize throws or answers without
\* success the payments sequence is unchanged; a Payment Record is appended
\* only by a payment-initialize whose gateway call succeeded
Thm_C20_NoRecordOnGatewayFailure ==
    [][/\ (now' = now /\ last'.op = "payment-initialize"
             /\ last'.result \in {"gateway_failed", "gateway_error"})
            => payments' = payments
       /\ Len(payments') # Len(payments)
            => /\ now' = now
               /\ last'.op = "payment-initialize" /\ last'.result = "ok"
               /\ payments' = Append(payments, payments'[Len(payments')])
               /\ payments'[Len(payments')].paymentReference = last'.ref]_vars

\* the gateway call failed on a group that already holds a Payment Record
Wit_C20 ==
    /\ last.op = "payment-initialize"
    /\ last.result \in {"gateway_failed", "gateway_error"}
    /\ payments # <<>>

\* a step taken by request-join on behalf of the caller u
RequestBy(u) == now' = now /\ last'.op = "request-join" /\ last'.actor = u

\* a step taken by the handler of op, called by actor about the requester req
JoinStep(op, actor, req) ==
    now' = now /\ last'.op = op /\ last'.actor = actor /\ last'.user = req

\* the positions of the pending requests of the user u
PendingOf(pr, u) == {i \in 1..Len(pr) : pr[i].userId = u}

\* pr without its entries of the user u
WithoutUser(pr, u) == SelectSeq(pr, LAMBDA e : e.userId # u)

\* C21: a request-join by a user who has a pending request answers Conflict
\* and leaves pendingRequests unchanged; pendingRequests never holds two
\* entries of one user
Thm_C21_OnePendingRequestPerUser ==
    [][/\ \A u \in Users : Cardinality(PendingOf(pendingRequests', u)) <= 1
       /\ \A u \in Users :
             (RequestBy(u) /\ PendingOf(pendingRequests, u) # {})
               => last'.result = "duplicate" /\ pendingRequests' = pendingRequests]_vars

\* a second request of a user was refused while another user's is pending too
Wit_C21 ==
    /\ last.op = "request-join" /\ last.result = "duplicate"
    /\ PendingOf(pendingRequests, last.actor) # {}
    /\ Len(pendingRequests) = 2

\* C22: request-join answers AlreadyMember before DuplicateRequest before
\* CapacityExceeded, each leaving the group unchanged, and otherwise appends
\* exactly one pending request of the caller, stamped with the current time
Thm_C22_RequestPriority ==
    [][\A u \in Users : RequestBy(u) =>
         IF u \in ElemSet(members)
         THEN last'.result = "already_member" /\ UNCHANGED groupVars
         ELSE IF PendingOf(pendingRequests, u) # {}
         THEN last'.result = "duplicate" /\ UNCHANGED groupVars
         ELSE IF Len(members) >= memberLimit
         THEN last'.result = "full" /\ UNCHANGED groupVars
         ELSE /\ last'.result = "ok"
              /\ pendingRequests' =
                    Append(pendingRequests, [userId |-> u, timestamp |-> now])
              /\ UNCHANGED <<createdBy, memberLimit, members, collectionOrder,
                             nextCollector, currentRound, status, payments>>]_vars

\* a member of a full group asked to join it
Wit_C22 ==
    /\ last.op = "request-join" /\ last.result = "already_member"
    /\ Len(members) = memberLimit

\* a user with a pending request asked again after the group had become full
Wit_C22_DuplicateOnFull ==
    /\ last.op = "request-join" /\ last.result = "duplicate"
    /\ Len(members) = memberLimit

\* C23: approve-join of a pending request older than 24 hours answers Expired,
\* removes the request and leaves members, collectionOrder and nextCollector
\* unchanged
Thm_C23_ApproveExpired ==
    [][\A req \in Users :
          (/\ JoinStep("approve-join", createdBy, req)
           /\ \E i \in PendingOf(pendingRequests, req) :
                 now - pendingRequests[i].timestamp > 24 * 60 * 60 * 1000)
            => /\ last'.result = "expired"
               /\ pendingRequests' = WithoutUser(pendingRequests, req)
               /\ UNCHANGED <<members, collectionOrder, nextCollector>>]_vars

\* a request two days old was refused on a group that had room for it
Wit_C23 ==
    /\ last.op = "approve-join" /\ last.result = "expired"
    /\ Len(members) < memberLimit
    /\ PendingOf(pendingRequests, last.user) = {}

\* C24: approve-join and reject-join by a caller other than the creator answer
\* Unauthorized and leave the group unchanged; members change only by an
\* approve-join of the creator
Thm_C24_CreatorOnly ==
    [][/\ \A actor \in Users \ {createdBy} :
             (now' = now /\ last'.op \in {"approve-join", "reject-join"}
                /\ last'.actor = actor)
               => last'.result = "unauthorized" /\ UNCHANGED groupVars
       /\ members' # members
            => /\ now' = now
               /\ last'.op = "approve-join" /\ last'.result = "ok"
               /\ last'.actor = createdBy]_vars

\* a caller other than the creator tried to approve a request that is pending
Wit_C24 ==
    /\ last.op = "approve-join" /\ last.result = "unauthorized"
    /\ last.actor # createdBy
    /\ pendingRequests # <<>>

\* C25: approve-join of a pending request that has not expired, on a group
\* with memberLimit members, answers CapacityExceeded, removes the request
\* and leaves members and collectionOrder unchanged
Thm_C25_ApproveOnFull ==
    [][\A req \in Users :
          (/\ JoinStep("approve-join", createdBy, req)
           /\ \E i \in PendingOf(pendingRequests, req) :
                 now - pendingRequests[i].timestamp <= 24 * 60 * 60 * 1000
           /\ Len(members) >= memberLimit)
            => /\ last'.result = "full"
               /\ pendingRequests' = WithoutUser(pendingRequests, req)
               /\ UNCHANGED <<members, collectionOrder>>]_vars

\* the request of a user was dropped because the group was full
Wit_C25 ==
    /\ last.op = "approve-join" /\ last.result = "full"
    /\ Len(members) = memberLimit
    /\ last.user \notin ElemSet(members)
    /\ PendingOf(pendingRequests, last.user) = {}

\* C26: a successful approve-join removes the approved request and appends
\* the requester at the end of members and of collectionOrder, leaving
\* currentRound, status and payments unchanged; approve-join for a user with
\* no pending request answers NotFound and changes nothing
Thm_C26_ApproveAppends ==
    [][\A req \in Users :
          /\ (JoinStep("approve-join", createdBy, req) /\ last'.result = "ok")
               => /\ PendingOf(pendingRequests, req) # {}
                  /\ pendingRequests' = WithoutUser(pendingRequests, req)
                  /\ members' = Append(members, req)
                  /\ collectionOrder' = Append(collectionOrder, req)
                  /\ UNCHANGED <<currentRound, status, payments>>
          /\ (JoinStep("approve-join", createdBy, req)
                /\ PendingOf(pendingRequests, req) = {})
               => last'.result = "not_found" /\ UNCHANGED groupVars]_vars

\* a second joiner was approved into a group that holds Payment Records
Wit_C26 ==
    /\ last.op = "approve-join" /\ last.result = "ok"
    /\ Len(members) = 3 /\ members[3] = last.user
    /\ payments # <<>>

\* an approval for a user without a pending request was refused
Wit_C26_NotFound ==
    /\ last.op = "approve-join" /\ last.result = "not_found"
    /\ pendingRequests # <<>>

\* C27: reject-join by the creator removes the matching request, answering
\* Expired when it is older than 24 hours, and never changes members,
\* collectionOrder, nextCollector, currentRound or payments; a request that
\* was approved, rejected or found expired is gone, and rejecting a user with
\* no pending request answers NotFound
Thm_C27_RejectRemoves ==
    [][\A req \in Users :
          /\ (JoinStep("reject-join", createdBy, req)
                /\ PendingOf(pendingRequests, req) # {})
               => /\ pendingRequests' = WithoutUser(pendingRequests, req)
                  /\ last'.result =
                        IF \E i \in PendingOf(pendingRequests, req) :
                              now - pendingRequests[i].timestamp > 24 * 60 * 60 * 1000
                        THEN "expired" ELSE "ok"
          /\ (JoinStep("reject-join", createdBy, req)
                /\ PendingOf(pendingRequests, req) = {})
               => last'.result = "not_found" /\ UNCHANGED groupVars
          /\ (now' = now /\ last'.op = "reject-join")
               => UNCHANGED <<members, collectionOrder, nextCollector,
                              currentRound, payments>>
          /\ (now' = now /\ last'.op \in {"approve-join", "reject-join"}
                /\ last'.user = req /\ last'.result \in {"ok", "expired", "full"})
               => PendingOf(pendingRequests', req) = {}]_vars

\* an expired request was removed by a rejection, another one is still pending
Wit_C27 ==
    /\ last.op = "reject-join" /\ last.result = "expired"
    /\ PendingOf(pendingRequests, last.user) = {}
    /\ pendingRequests # <<>>

\* a request was rejected in time
Wit_C27_Rejected ==
    /\ last.op = "reject-join" /\ last.result = "ok"
    /\ PendingOf(pendingRequests, last.user) = {}

\* C28: a successful payment-initialize appends exactly one Payment Record,
\* pending, for the group's currentRound and to the group's nextCollector,
\* and changes nothing else in the group
Thm_C28_InitializeAppendsOne ==
    [][\A u \in Users :
          (InitializeBy(u) /\ last'.result = "ok")
            => /\ payments' = Append(payments,
                     [payer |-> u, recipient |-> nextCollector,
                      round |-> currentRound, status |-> "Pending",
                      paymentReference |-> last'.ref])
               /\ UNCHANGED <<createdBy, memberLimit, members, collectionOrder,
                              pendingRequests, nextCollector, currentRound,
                              status>>]_vars

\* a payment was initialized in the second round
Wit_C28 ==
    /\ last.op = "payment-initialize" /\ last.result = "ok"
    /\ currentRound = 2
    /\ payments[Len(payments)].round = 2

\* C29: payments is append-only and a payment status is monotone: every step
\* keeps the records it found, in their places, and a record that is no
\* longer pending keeps its status
Thm_C29_PaymentsAppendOnly ==
    [][/\ Len(payments') >= Len(payments)
       /\ \A i \in 1..Len(payments) :
             /\ payments'[i].payer = payments[i].payer
             /\ payments'[i].recipient = payments[i].recipient
             /\ payments'[i].round = payments[i].round
             /\ payments'[i].paymentReference = payments[i].paymentReference
             /\ payments[i].status # "Pending"
                  => payments'[i].status = payments[i].status]_vars

\* a complete payment was verified once more
Wit_C29 ==
    /\ last.op = "payment-verify" /\ last.result = "ok"
    /\ Len(payments) = 2
    /\ payments[1].status = "Complete" /\ payments[2].status = "Complete"
    /\ currentRound >= 3

\* C30: a payment-verify that does not answer success leaves the group
\* unchanged; a reference that no Payment Record carries is answered NotFound
Thm_C30_FailedVerifyChangesNothing ==
    [][(now' = now /\ last'.op = "payment-verify") =>
          /\ last'.result # "ok" => UNCHANGED groupVars
          /\ (last'.ref # 0
                /\ \A i \in 1..Len(payments) :
                      payments[i].paymentReference # last'.ref)
               => last'.result = "not_found"
          /\ last'.result \in {"not_found", "verification_failed"}
               => UNCHANGED <<payments, nextCollector, currentRound, status>>]_vars

\* an unknown reference was refused on a group that holds a pending payment
Wit_C30 ==
    /\ last.op = "payment-verify" /\ last.result = "not_found"
    /\ \E i \in 1..Len(payments) : payments[i].status = "Pending"

\* the gateway reported a transaction as not successful
Wit_C30_GatewayFailed ==
    /\ last.op = "payment-verify" /\ last.result = "verification_failed"
    /\ \E i \in 1..Len(payments) : payments[i].status = "Pending"

\* C31: once nextCollector has been assigned it is never unset again: no
\* step takes it from a user back to null
Thm_C31_CollectorStaysSet ==
    [][nextCollector # NULL => nextCollector' # NULL]_vars

\* a verified payment of the last member of the rotation wrapped the pointer
\* back to the creator
Wit_C31 ==
    /\ last.op = "payment-verify" /\ last.result = "ok"
    /\ last.user = collectionOrder[Len(collectionOrder)]
    /\ nextCollector = createdBy
    /\ currentRound = 2

====
